---------------------------- MODULE Spec2Model ----------------------------
(***************************************************************************)
(* Model of src/src/App.tsx: the column packing reduce of MenuContainer    *)
(* and the React life cycle that drives it (render, commit of the child    *)
(* refs, layout effect with its cleanup, synchronous re-render).           *)
(*                                                                         *)
(* Units: every height is a whole number of pixels.  The viewport heights  *)
(* and top offsets are multiples of 5, so that 0.8 * (height - top) is a   *)
(* whole number and is computed exactly as 4 * (height - top) / 5.         *)
(***************************************************************************)
EXTENDS Integers, Sequences, FiniteSets, TLC

\* ------------------------------------------------------------------ bounds
\* longest height sequence handed to the reduce on its own
MaxLen == 4
\* largest single item height handed to the reduce on its own
MaxHeightVal == 3
\* largest budget handed to the reduce on its own
MaxBudget == 6

\* most items the menu is given
MaxItems == 3
\* how far below zero "Remover item" is followed
MaxBelowZero == 1
\* most user and browser events of one behaviour
MaxEvents == 6

\* --------------------------------------------------------------- variables
VARIABLES
  \* the reduce of lines 141-158, run on its own
  rHeights,        \* the heights getBoundingClientRect returns, in index order
  rMaxHeight,      \* the budget the reduce compares against
  rIdx,            \* the index the reduce visits next
  acc,             \* the accumulator array of the reduce
  columnHeight,    \* let columnHeight (line 141)
  currentColumn,   \* let currentColumn (line 142)
  \* App
  itemsCount,      \* useState(1), line 319
  align,           \* useState<Align>('left'), line 321
  \* Dropdown
  isOpen,          \* useState(false), line 59
  \* MenuContainer, while it is mounted
  hasCalculatedColumns,  \* line 122
  columns,               \* line 124
  childrenRefs,          \* childrenRefs.current, line 126: per index, whether
                         \* the element stored there is in the document
  top,                   \* useMeasure's bounds.top, line 130
  height,                \* useWindowSize's height, line 132
  hasCleanup,            \* whether the last run of the layout effect returned
                         \* the cleanup of lines 162-165
  lastDeps,              \* the dependencies [children, maxHeight, top] of the
                         \* last run of the layout effect, line 166
  pc,                    \* what React does next: "idle", "render", "effect"
  \* the browser
  measured,        \* whether the ResizeObserver has reported since the mount
  itemHeights,     \* the height of the <li> of each item when it is rendered
  events           \* the number of user and browser events so far

packVars == <<rHeights, rMaxHeight, rIdx, acc, columnHeight, currentColumn>>

appVars == <<itemsCount, align>>

menuVars == <<hasCalculatedColumns, columns, childrenRefs, top, hasCleanup,
              lastDeps, measured>>

vars == <<rHeights, rMaxHeight, rIdx, acc, columnHeight, currentColumn,
          itemsCount, align, isOpen, hasCalculatedColumns, columns,
          childrenRefs, top, height, hasCleanup, lastDeps, pc, measured,
          itemHeights, events>>

\* ------------------------------------------------------ JavaScript arrays
\* An Array<Array<number>> that may be sparse: its length, and the slots
\* that hold a value (a slot outside DOMAIN at is a hole).  isNull marks
\* the value null of useState<Array<Array<number>> | null>(null).
EmptyArray == [isNull |-> FALSE, length |-> 0, at |-> <<>>]

NullColumns == [isNull |-> TRUE, length |-> 0, at |-> <<>>]

\* acc[k] || []
SlotOrEmpty(arr, k) == IF k \in DOMAIN arr.at THEN arr.at[k] ELSE <<>>

\* acc[k] = v : writes slot k, and the length grows to k + 1 when k is past it
SetSlot(arr, k, v) ==
  [isNull |-> FALSE,
   length |-> IF k + 1 > arr.length THEN k + 1 ELSE arr.length,
   at |-> [j \in (DOMAIN arr.at) \cup {k} |-> IF j = k THEN v ELSE arr.at[j]]]

\* ------------------------------------------------------------- the packer
\* height + columnHeight <= maxHeight (itemHeight is the callback's height,
\* which shadows the window's)
FitsFlipped(itemHeight, colHeight, maxHeight) == itemHeight + colHeight >= maxHeight

FitsStrict(itemHeight, colHeight, maxHeight) == itemHeight + colHeight < maxHeight

Fits(itemHeight, colHeight, maxHeight) == itemHeight + colHeight <= maxHeight

\* the column itemHeight after one callback of the reduce
NextColumnHeightZero(itemHeight, colHeight, maxHeight) ==
  IF Fits(itemHeight, colHeight, maxHeight) THEN colHeight + itemHeight ELSE 0

NextColumnHeight(itemHeight, colHeight, maxHeight) ==
  IF Fits(itemHeight, colHeight, maxHeight) THEN colHeight + itemHeight ELSE itemHeight

\* the column index after one callback of the reduce
NextColumn(itemHeight, colHeight, curColumn, maxHeight) ==
  IF Fits(itemHeight, colHeight, maxHeight) THEN curColumn ELSE curColumn + 1

\* acc[currentColumn] = (acc[currentColumn] || []).concat(idx)
AppendIdxOverwrite(arr, k, idx) == SetSlot(arr, k, <<idx>>)

AppendIdx(arr, k, idx) == SetSlot(arr, k, Append(SlotOrEmpty(arr, k), idx))

\* one callback of the reduce, on the state [acc, columnHeight, currentColumn]
ReduceCallback(st, itemHeight, idx, maxHeight) ==
  LET col == NextColumn(itemHeight, st.columnHeight, st.currentColumn, maxHeight)
  IN  [acc |-> AppendIdx(st.acc, col, idx),
       columnHeight |-> NextColumnHeight(itemHeight, st.columnHeight, maxHeight),
       currentColumn |-> col]

ReduceStart == [acc |-> EmptyArray, columnHeight |-> 0, currentColumn |-> 0]

RECURSIVE ReduceFrom(_, _, _, _)
ReduceFrom(heights, maxHeight, idx, st) ==
  IF idx >= Len(heights) THEN st
  ELSE ReduceFrom(heights, maxHeight, idx + 1,
                  ReduceCallback(st, heights[idx + 1], idx, maxHeight))

\* childrenRefs.current.reduce(..., []) with the heights of its elements
Pack(heights, maxHeight) == ReduceFrom(heights, maxHeight, 0, ReduceStart).acc

\* ------------------------------------------------- what a columns array is
\* the number of columns of the array: the slots that hold one, which are
\* the slots columns.map visits (it skips holes)
NumColumns(arr) == Cardinality(DOMAIN arr.at)

\* the indices of all columns, concatenated in column order
RECURSIVE ConcatFrom(_, _)
ConcatFrom(arr, k) ==
  IF k >= arr.length THEN <<>>
  ELSE SlotOrEmpty(arr, k) \o ConcatFrom(arr, k + 1)

Concat(arr) == ConcatFrom(arr, 0)

RECURSIVE SumAt(_, _)
SumAt(heights, column) ==
  IF column = <<>> THEN 0
  ELSE heights[Head(column) + 1] + SumAt(heights, Tail(column))

\* <<0, 1, ..., n - 1>>
Iota(n) == [i \in 1..n |-> i - 1]

\* ------------------------------------------------------------ environment
Aligns == {"left", "center", "right"}

\* window.innerHeight, in pixels
WindowHeights == {5, 30}

\* the top offsets getBoundingClientRect reports for the container
Tops == {0, 5, 10}

\* the heights getBoundingClientRect reports for a rendered <li>
ItemHeightVals == {5, 20}

\* what the user may leave in the input: texts of at most two characters
InputChars == {"0", "1", "2", "3", "a", "-"}

InputTexts == UNION {[1..n -> InputChars] : n \in 0..2}

\* ---------------------------------------------------------------- App
IsDigit(c) == c \in {"0", "1", "2", "3", "4", "5", "6", "7", "8", "9"}

DigitValue(c) ==
  CASE c = "0" -> 0 [] c = "1" -> 1 [] c = "2" -> 2 [] c = "3" -> 3
    [] c = "4" -> 4 [] c = "5" -> 5 [] c = "6" -> 6 [] c = "7" -> 7
    [] c = "8" -> 8 [] c = "9" -> 9

RECURSIVE DecimalValue(_)
DecimalValue(digits) ==
  IF digits = <<>> THEN 0
  ELSE 10 * DecimalValue(SubSeq(digits, 1, Len(digits) - 1))
       + DigitValue(digits[Len(digits)])

\* Number(evt.target.value.replace(/\D+/g, '') || '0')
ParseInput(text) == DecimalValue(SelectSeq(text, IsDigit))

\* Array.from({ length: props.itemsCount }): a negative length gives no item
ItemListLen(count) == IF count < 0 THEN 0 ELSE count

\* ------------------------------------------------------- MenuContainer
\* const maxHeight = 0.8 * (height - top), exact on multiples of 5
MaxHeightOf(h, t) == (4 * (h - t)) \div 5

MaxHeight == MaxHeightOf(height, top)

\* [children, maxHeight, top]: AppBar builds a new children array on each of
\* its renders, that is on each change of itemsCount or of align
CurrentDeps ==
  [children |-> <<itemsCount, align>>, maxHeight |-> MaxHeight, top |-> top]

\* before the first run of the layout effect
NoDeps == [children |-> <<>>, maxHeight |-> 0, top |-> 0]

\* column.includes(idx) for some column of the array
InColumns(cols, idx) ==
  \E k \in DOMAIN cols.at : \E j \in 1..Len(cols.at[k]) : cols.at[k][j] = idx

\* the indices of the items the returned tree holds: all of menuItems while
\* not calculated, else those some column includes (none when columns is null)
RenderedIdx(calculated, cols, n) ==
  IF ~calculated THEN 0..(n - 1)
  ELSE {i \in 0..(n - 1) : InColumns(cols, i)}

SetMax(S) == CHOOSE m \in S : \A x \in S : x <= m

\* the commit: each rendered item's ref callback stores its element at its
\* index; an element stored earlier at an index that is not rendered has left
\* the document and stays in the array
CommitRefs(refs, rendered) ==
  LET need == IF rendered = {} THEN 0 ELSE SetMax(rendered) + 1
      len  == IF need > Len(refs) THEN need ELSE Len(refs)
  IN  [i \in 1..len |-> IF (i - 1) \in rendered THEN "attached" ELSE "detached"]

\* cur.getBoundingClientRect().height of each element of childrenRefs.current:
\* an element that left the document reports 0
ElementHeights(refs) ==
  [i \in 1..Len(refs) |-> IF refs[i] = "attached" THEN itemHeights[i] ELSE 0]

\* the hook state of a MenuContainer that has just been created; one of the
\* three Dropdowns of AppBar is followed, the others behave alike
Mounted ==
  /\ hasCalculatedColumns' = FALSE
  /\ columns' = NullColumns
  /\ childrenRefs' = <<>>
  /\ top' = 0
  /\ hasCleanup' = FALSE
  /\ lastDeps' = NoDeps
  /\ measured' = FALSE

\* ---------------------------------------------------------------- Init
PackIdle ==
  /\ rHeights = <<>>
  /\ rMaxHeight = 0
  /\ rIdx = 0
  /\ acc = EmptyArray
  /\ columnHeight = 0
  /\ currentColumn = 0

AppInit ==
  /\ itemsCount = 1
  /\ align = "left"
  /\ isOpen = FALSE
  /\ hasCalculatedColumns = FALSE
  /\ columns = NullColumns
  /\ childrenRefs = <<>>
  /\ top = 0
  /\ hasCleanup = FALSE
  /\ lastDeps = NoDeps
  /\ measured = FALSE
  /\ pc = "idle"
  /\ events = 0

Init ==
  /\ PackIdle
  /\ AppInit
  /\ height \in WindowHeights
  /\ itemHeights \in [1..MaxItems -> ItemHeightVals]

\* -------------------------------------------------------------- events
\* an event handler runs between two renders, and React renders after it
Event ==
  /\ pc = "idle"
  /\ events < MaxEvents
  /\ events' = events + 1
  /\ pc' = IF isOpen THEN "render" ELSE "idle"

\* onClick of "Remover item"
RemoverItem ==
  /\ Event
  /\ itemsCount > 0 - MaxBelowZero
  /\ itemsCount' = itemsCount - 1
  /\ UNCHANGED <<packVars, align, isOpen, menuVars, height, itemHeights>>

\* onClick of "Adicionar item"
AdicionarItem ==
  /\ Event
  /\ itemsCount < MaxItems
  /\ itemsCount' = itemsCount + 1
  /\ UNCHANGED <<packVars, align, isOpen, menuVars, height, itemHeights>>

\* onChange of the input; setting the state to its own value renders nothing
InputChange(text) ==
  /\ Event
  /\ ParseInput(text) <= MaxItems
  /\ ParseInput(text) # itemsCount
  /\ itemsCount' = ParseInput(text)
  /\ UNCHANGED <<packVars, align, isOpen, menuVars, height, itemHeights>>

\* onClick of the three alignment buttons
SetAlign(a) ==
  /\ Event
  /\ a # align
  /\ align' = a
  /\ UNCHANGED <<packVars, itemsCount, isOpen, menuVars, height, itemHeights>>

\* the pointer enters the trigger: DropdownContent renders its children
HoverOpen ==
  /\ pc = "idle"
  /\ events < MaxEvents
  /\ ~isOpen
  /\ isOpen' = TRUE
  /\ Mounted
  /\ pc' = "render"
  /\ events' = events + 1
  /\ UNCHANGED <<packVars, appVars, height, itemHeights>>

\* the pointer leaves: DropdownContent returns null, MenuContainer unmounts
\* and its hook state is discarded (kept here at the values of a new mount)
HoverClose ==
  /\ pc = "idle"
  /\ events < MaxEvents
  /\ isOpen
  /\ isOpen' = FALSE
  /\ Mounted
  /\ pc' = "idle"
  /\ events' = events + 1
  /\ UNCHANGED <<packVars, appVars, height, itemHeights>>

\* the window is resized
WindowResize(h) ==
  /\ Event
  /\ h # height
  /\ height' = h
  /\ UNCHANGED <<packVars, appVars, isOpen, menuVars, itemHeights>>

\* the ResizeObserver's first report after the container is observed
FirstMeasure(t) ==
  /\ pc = "idle"
  /\ isOpen
  /\ ~measured
  /\ measured' = TRUE
  /\ top' = t
  /\ pc' = "render"
  /\ UNCHANGED <<packVars, appVars, isOpen, hasCalculatedColumns, columns,
                 childrenRefs, hasCleanup, lastDeps, height, itemHeights,
                 events>>

\* a later report: the container has moved
Remeasure(t) ==
  /\ Event
  /\ isOpen
  /\ measured
  /\ t # top
  /\ top' = t
  /\ UNCHANGED <<packVars, appVars, isOpen, hasCalculatedColumns, columns,
                 childrenRefs, hasCleanup, lastDeps, measured, height,
                 itemHeights>>

\* ------------------------------------------------------- React's steps
\* MenuContainer renders and React commits the tree: the ref callbacks of
\* the rendered items run, and the layout effect is due when a dependency
\* differs from the last run's
Render ==
  /\ pc = "render"
  /\ childrenRefs' =
       CommitRefs(childrenRefs,
                  RenderedIdx(hasCalculatedColumns, columns,
                              ItemListLen(itemsCount)))
  /\ pc' = IF lastDeps # CurrentDeps THEN "effect" ELSE "idle"
  /\ UNCHANGED <<packVars, appVars, isOpen, hasCalculatedColumns, columns,
                 top, hasCleanup, lastDeps, measured, height, itemHeights,
                 events>>

\* whether the body of the layout effect goes past its early return
EffectRuns == top # 0

\* the cleanup of the last run, if it returned one, then the layout effect;
\* the state updates of both are applied together, in order, and any of them
\* makes React render again before the browser paints
LayoutEffect ==
  /\ pc = "effect"
  /\ columns' = IF EffectRuns
                THEN Pack(ElementHeights(childrenRefs), MaxHeight)
                ELSE IF hasCleanup THEN EmptyArray ELSE columns
  /\ hasCalculatedColumns' = IF EffectRuns THEN TRUE
                             ELSE IF hasCleanup THEN FALSE
                             ELSE hasCalculatedColumns
  /\ hasCleanup' = EffectRuns
  /\ lastDeps' = CurrentDeps
  /\ pc' = IF EffectRuns \/ hasCleanup THEN "render" ELSE "idle"
  /\ UNCHANGED <<packVars, appVars, isOpen, childrenRefs, top, measured,
                 height, itemHeights, events>>

Next ==
  \/ RemoverItem
  \/ AdicionarItem
  \/ \E text \in InputTexts : InputChange(text)
  \/ \E a \in Aligns : SetAlign(a)
  \/ HoverOpen
  \/ HoverClose
  \/ \E h \in WindowHeights : WindowResize(h)
  \/ \E t \in Tops : FirstMeasure(t)
  \/ \E t \in Tops : Remeasure(t)
  \/ Render
  \/ LayoutEffect

Spec == Init /\ [][Next]_vars

\* React runs every render and every layout effect it has scheduled, and
\* the ResizeObserver reports once after the container is observed; the
\* user and the window owe nothing
LiveSpec ==
  /\ Spec
  /\ WF_vars(Render)
  /\ WF_vars(LayoutEffect)
  /\ WF_vars(\E t \in Tops : FirstMeasure(t))

\* ------------------------------------------------- the reduce, on its own
HeightSeqs == UNION {[1..n -> 0..MaxHeightVal] : n \in 0..MaxLen}

Budgets == (0 - 1)..MaxBudget

PackInit ==
  /\ rHeights \in HeightSeqs
  /\ rMaxHeight \in Budgets
  /\ rIdx = 0
  /\ acc = ReduceStart.acc
  /\ columnHeight = ReduceStart.columnHeight
  /\ currentColumn = ReduceStart.currentColumn
  /\ AppInit
  /\ height = 30
  /\ itemHeights = [i \in 1..MaxItems |-> 5]

\* the reduce visits the element at rIdx
ReduceVisit ==
  /\ rIdx < Len(rHeights)
  /\ LET st == ReduceCallback(
                 [acc |-> acc, columnHeight |-> columnHeight,
                  currentColumn |-> currentColumn],
                 rHeights[rIdx + 1], rIdx, rMaxHeight)
     IN  /\ acc' = st.acc
         /\ columnHeight' = st.columnHeight
         /\ currentColumn' = st.currentColumn
  /\ rIdx' = rIdx + 1
  /\ UNCHANGED <<rHeights, rMaxHeight, appVars, isOpen, menuVars, height, pc,
                 itemHeights, events>>

PackNext == ReduceVisit

PackSpec == PackInit /\ [][PackNext]_vars

ReduceDone == rIdx = Len(rHeights)

\* ------------------------------------------------ claims about the packer
\* C1: for every height sequence and budget, the columns the reduce
\* produces, concatenated in column order, are exactly the indices
\* 0, 1, ..., N - 1 (after every callback: the indices visited so far), so
\* every index appears once, in source order, each column a contiguous run.
C1_ConcatIsSourceOrder == Concat(acc) = Iota(rIdx)

C1_Witness ==
  /\ ReduceDone
  /\ Len(rHeights) >= 3
  /\ rMaxHeight > 0
  /\ NumColumns(acc) >= 2

\* C2: every column the reduce produces has a height sum <= maxHeight or
\* holds exactly one item.
C2_WithinBudgetOrSingleton ==
  \A k \in DOMAIN acc.at :
    \/ SumAt(rHeights, acc.at[k]) <= rMaxHeight
    \/ Len(acc.at[k]) = 1

C2_Witness ==
  /\ ReduceDone
  /\ \E k \in DOMAIN acc.at :
       Len(acc.at[k]) = 1 /\ SumAt(rHeights, acc.at[k]) > rMaxHeight
  /\ \E k \in DOMAIN acc.at :
       Len(acc.at[k]) >= 2 /\ SumAt(rHeights, acc.at[k]) = rMaxHeight

\* C3: packing no item yields an array of length 0, and packing one item
\* yields the array [[0]] whatever its height is.
C3_EmptyAndSingle ==
  ReduceDone =>
    /\ Len(rHeights) = 0 => acc = EmptyArray
    /\ Len(rHeights) = 1 =>
         acc = [isNull |-> FALSE, length |-> 1, at |-> (0 :> <<0>>)]

\* C4: for a fixed height sequence, a larger budget never yields more
\* columns (nor a longer array) than a smaller one.
C4_Monotone ==
  ReduceDone =>
    \A b2 \in Budgets :
      b2 >= rMaxHeight =>
        /\ NumColumns(Pack(rHeights, b2)) <= NumColumns(acc)
        /\ Pack(rHeights, b2).length <= acc.length

C4_Witness ==
  /\ ReduceDone
  /\ rMaxHeight > 0
  /\ \E b2 \in Budgets :
       b2 > rMaxHeight /\ NumColumns(Pack(rHeights, b2)) < NumColumns(acc)

\* the sum of heights[a + 1 .. b], the items of indices a .. b - 1
RECURSIVE RunSum(_, _, _)
RunSum(heights, a, b) ==
  IF a >= b THEN 0 ELSE heights[a + 1] + RunSum(heights, a + 1, b)

\* An order-preserving partition of 0 .. n - 1 into contiguous columns is
\* the set of indices at which a new column starts, other than index 0.
CutSets(n) == SUBSET (1..(n - 1))

\* the run that starts at index a ends before the next start after a
RunEnd(cuts, a, n) ==
  IF \E c \in cuts : c > a
  THEN CHOOSE c \in cuts : c > a /\ \A d \in cuts : d > a => c <= d
  ELSE n

Admissible(heights, maxHeight, cuts) ==
  \A a \in (cuts \cup {0}) :
    LET b == RunEnd(cuts, a, Len(heights))
    IN  RunSum(heights, a, b) <= maxHeight \/ b - a = 1

MinColumns(heights, maxHeight) ==
  IF Len(heights) = 0 THEN 0
  ELSE LET sizes == {Cardinality(cuts) + 1 :
                       cuts \in {c \in CutSets(Len(heights)) :
                                   Admissible(heights, maxHeight, c)}}
       IN  CHOOSE m \in sizes : \A x \in sizes : m <= x

\* C5: the number of columns the reduce produces is the minimum over all
\* order-preserving partitions into contiguous columns in which every
\* column sums to <= maxHeight or is a single item; and heights
\* [100, 100, 100] with maxHeight 250 give exactly [[0, 1], [2]].
C5_MinimalColumns ==
  /\ ReduceDone => NumColumns(acc) = MinColumns(rHeights, rMaxHeight)
  /\ Pack(<<100, 100, 100>>, 250) =
       [isNull |-> FALSE, length |-> 2, at |-> (0 :> <<0, 1>> @@ 1 :> <<2>>)]

C5_Witness ==
  /\ ReduceDone
  /\ Len(rHeights) >= 3
  /\ NumColumns(acc) >= 2
  /\ NumColumns(acc) < Len(rHeights)
  /\ \E k \in DOMAIN acc.at : SumAt(rHeights, acc.at[k]) < rMaxHeight

\* -------------------------------------------- claims about MenuContainer
\* the number of items of the current list
ItemCount == ItemListLen(itemsCount)

\* the re-render React has just committed was caused by a change of itemsCount
CountChanged == lastDeps # NoDeps /\ lastDeps.children[1] # itemsCount

\* how often idx occurs in a sequence of indices
Occurrences(seq, idx) == Cardinality({j \in 1..Len(seq) : seq[j] = idx})

\* C6: once React has settled, the state is Packed only if maxHeight > 0:
\* while maxHeight <= 0, or before the container is measured, the layout
\* effect has not packed, the state is Unmeasured and there is no column.
C6_PacksOnlyWithPositiveBudget ==
  (isOpen /\ pc = "idle" /\ (MaxHeight <= 0 \/ ~measured)) =>
    (~hasCalculatedColumns /\ NumColumns(columns) = 0)

\* C7: when the item count has changed while the panel is open, the layout
\* effect that follows finds the state Unmeasured or leaves it Unmeasured,
\* and finds a registry without a handle of a removed item or leaves the
\* registry empty: it does not pack again from the old layout.
C7_CountChangeResets ==
  [][(isOpen /\ pc = "effect" /\ CountChanged) =>
       /\ ~hasCalculatedColumns \/ ~hasCalculatedColumns'
       /\ Len(childrenRefs) <= ItemCount \/ childrenRefs' = <<>>]_vars

\* C8: whenever the packer is about to run, the registry it reads holds, for
\* every index of the current item list, the element rendered by the commit
\* that has just happened.
C8_PackReadsFullRegistry ==
  (isOpen /\ pc = "effect" /\ EffectRuns) =>
    \A i \in 1..ItemCount :
      i <= Len(childrenRefs) /\ childrenRefs[i] = "attached"

\* the panel is open and measured, every item of the current list is mounted
\* and registered, the budget is positive and React has nothing left to do
Ready ==
  /\ isOpen
  /\ measured
  /\ pc = "idle"
  /\ MaxHeight > 0
  /\ \A i \in 1..ItemCount :
       i <= Len(childrenRefs) /\ childrenRefs[i] = "attached"

\* C9: while the panel stays open, once every item is registered and the
\* budget is positive (also when the measured top offset is 0), the
\* controller eventually reaches Packed.
C9_EventuallyPacked == Ready ~> (hasCalculatedColumns \/ ~isOpen)

\* C10: once React has settled in the Packed state, the stored columns hold
\* every index of the current item list exactly once and no index of a
\* removed item, so no column renders empty.
C10_ColumnsMatchItems ==
  (isOpen /\ pc = "idle" /\ hasCalculatedColumns) =>
    /\ \A i \in 0..(ItemCount - 1) : Occurrences(Concat(columns), i) = 1
    /\ \A j \in 1..Len(Concat(columns)) : Concat(columns)[j] < ItemCount
    /\ \A k \in DOMAIN columns.at :
         RenderedIdx(TRUE, [columns EXCEPT !.at = (k :> columns.at[k])],
                     ItemCount) # {}
=============================================================================
